---------------------------- MODULE Spec2Model ----------------------------
(***************************************************************************)
(* Model of data_locality_demo.py: the two matrix summers                  *)
(* (sum_matrix_row_major, sum_matrix_column_major) and the benchmark       *)
(* harness run_performance_test.                                           *)
(*                                                                         *)
(* A matrix is a record [rows, cols, data] whose data is the C-contiguous  *)
(* buffer of the NumPy array: element (r, c) lives at linear offset        *)
(* r * cols + c (0-based), i.e. at data[r * cols + c + 1].                 *)
(*                                                                         *)
(* Integers wider than 32 bits are kept as a pair <<hi, lo>> standing for  *)
(* hi * 2^32 + lo with lo a signed 32-bit value, so that an accumulator    *)
(* that keeps the carry (64-bit) and one that drops it (32-bit) differ.    *)
(*                                                                         *)
(* Time is counted in clock ticks; an average or a ratio is a fraction     *)
(* <<numerator, denominator>> of ticks.                                    *)
(***************************************************************************)
EXTENDS Integers, Sequences, FiniteSets, TLC

(* ------------------------------ bounds --------------------------------- *)
\* largest row count of a matrix handed directly to a summer
MaxRows == 2
\* largest column count of a matrix handed directly to a summer
MaxCols == 2
\* largest configured MATRIX_SIZE
MaxSize == 2
\* largest configured NUM_RUNS
MaxRuns == 2
\* largest number of ticks the clock advances during one traversal
MaxTick == 1
\* clock ticks per microsecond (the unit of the sixth printed decimal)
TicksPerMicro == 2

(* ------------------------- program constants --------------------------- *)
\* np.random.randint(0, 100, ...): low (inclusive) and high (exclusive)
Lo == 0
Hi == 100

MaxInt32 == 2147483647
MinInt32 == (0 - MaxInt32) - 1

\* a name that is not bound yet: the empty tuple (a bound matrix m is <<m>>,
\* a bound number is the pair that stands for it)
None == <<>>

VARIABLES
    \* --- the build and the configuration ---
    np_int_bits,            \* width NumPy gives `0 + np.int32(x)`: 32 or 64
    MATRIX_SIZE,            \* line 8
    NUM_RUNS,               \* line 9
    \* --- a direct call of the summers on an arbitrary matrix ---
    matrix,                 \* the argument
    row_major_sum,          \* what sum_matrix_row_major(matrix) returned
    column_major_sum,       \* what sum_matrix_column_major(matrix) returned
    row_major_reads,        \* offsets sum_matrix_row_major read, in order
    column_major_reads,     \* offsets sum_matrix_column_major read, in order
    \* --- run_performance_test ---
    pc,                     \* position in run_performance_test
    i,                      \* the loop variable of the timing loops
    last_sum,               \* `_`: what the last summer call returned
    output,                 \* the lines printed so far
    data_matrix,
    row_major_times,
    column_major_times,
    avg_row_major_time,
    avg_column_major_time,
    speedup,
    clock,                  \* time.perf_counter()
    calls,                  \* the (summer, argument) pairs of the calls made
    stage_log,              \* the stages entered so far
    exit_status,            \* "running", then the process status "0" or "1"
    error                   \* the uncaught exception, "" if none

cfgvars == <<np_int_bits, MATRIX_SIZE, NUM_RUNS>>
sumvars == <<matrix, row_major_sum, column_major_sum, row_major_reads,
             column_major_reads>>
runvars == <<pc, i, last_sum, output, data_matrix, row_major_times, column_major_times,
             avg_row_major_time, avg_column_major_time, speedup, clock,
             calls, stage_log, exit_status, error>>
vars == <<cfgvars, sumvars, runvars>>

(* ------------------------- 32-bit arithmetic --------------------------- *)
\* a + b for two signed 32-bit values: the low 32 bits (signed) and the carry
Add32(a, b) ==
    IF b > 0 /\ a > MaxInt32 - b
    THEN [carry |-> 1, low |-> ((a - MaxInt32) - 1) + ((b - MaxInt32) - 1)]
    ELSE IF b < 0 /\ a < MinInt32 - b
    THEN [carry |-> 0 - 1, low |-> ((a + MaxInt32) + 1) + ((b + MaxInt32) + 1)]
    ELSE [carry |-> 0, low |-> a + b]

\* total_sum += matrix[r, c]: a Python int 0 or a NumPy scalar plus np.int32.
\* The result has np_int_bits bits: 64 keeps the carry, 32 wraps around.
ScalarAdd(total_sum, x) ==
    LET s == Add32(total_sum[2], x)
    IN  IF np_int_bits = 64 THEN <<total_sum[1] + s.carry, s.low>>
        ELSE <<0, s.low>>

(* ------------------------------ matrices ------------------------------- *)
\* linear offset of element (r, c) in the C-contiguous buffer
Offset(m, r, c) == r * m.cols + c

\* matrix[r, c]
Element(m, r, c) == m.data[Offset(m, r, c) + 1]

\* one loop body: total_sum += matrix[r, c], recording the offset read
Visit(acc, m, r, c) ==
    [total_sum |-> ScalarAdd(acc.total_sum, Element(m, r, c)),
     reads     |-> Append(acc.reads, Offset(m, r, c))]

StartAcc == [total_sum |-> <<0, 0>>, reads |-> <<>>]

\* the loops with the roles of the two indices exchanged: columns outermost
RECURSIVE RowMajorLoopSwapped(_, _, _, _)
RowMajorLoopSwapped(m, r, c, acc) ==
    IF c >= m.cols THEN acc
    ELSE IF r >= m.rows THEN RowMajorLoopSwapped(m, 0, c + 1, acc)
    ELSE RowMajorLoopSwapped(m, r + 1, c, Visit(acc, m, r, c))

\* for r in range(rows): for c in range(cols): total_sum += matrix[r, c]
RECURSIVE RowMajorLoop(_, _, _, _)
RowMajorLoop(m, r, c, acc) ==
    IF r >= m.rows THEN acc
    ELSE IF c >= m.cols THEN RowMajorLoop(m, r + 1, 0, acc)
    ELSE RowMajorLoop(m, r, c + 1, Visit(acc, m, r, c))

\* the inner loop stopping one row short: range(rows - 1)
RECURSIVE ColumnMajorLoopShort(_, _, _, _)
ColumnMajorLoopShort(m, r, c, acc) ==
    IF c >= m.cols THEN acc
    ELSE IF r >= m.rows - 1 THEN ColumnMajorLoopShort(m, 0, c + 1, acc)
    ELSE ColumnMajorLoopShort(m, r + 1, c, Visit(acc, m, r, c))

\* for c in range(cols): for r in range(rows): total_sum += matrix[r, c]
RECURSIVE ColumnMajorLoop(_, _, _, _)
ColumnMajorLoop(m, r, c, acc) ==
    IF c >= m.cols THEN acc
    ELSE IF r >= m.rows THEN ColumnMajorLoop(m, 0, c + 1, acc)
    ELSE ColumnMajorLoop(m, r + 1, c, Visit(acc, m, r, c))

sum_matrix_row_major(m) == RowMajorLoop(m, 0, 0, StartAcc)

sum_matrix_column_major(m) == ColumnMajorLoop(m, 0, 0, StartAcc)

\* every rows x cols matrix over the values vals
Matrices(rows, cols, vals) ==
    { [rows |-> rows, cols |-> cols, data |-> d] :
        d \in [1..(rows * cols) -> vals] }

\* the int32 values the summers are tried on
Int32Samples == {MinInt32, 1, MaxInt32}

\* the exact sum of the elements, every carry kept
RECURSIVE ExactSumFrom(_, _, _)
ExactSumFrom(data, k, total) ==
    IF k > Len(data) THEN total
    ELSE LET s == Add32(total[2], data[k])
         IN  ExactSumFrom(data, k + 1, <<total[1] + s.carry, s.low>>)

ExactSum(m) == ExactSumFrom(m.data, 1, <<0, 0>>)

(* ------------------- the summers called on any matrix ------------------ *)
RunIdle ==
    /\ pc = "header"
    /\ i = 0
    /\ last_sum = None
    /\ output = <<>>
    /\ data_matrix = None
    /\ row_major_times = <<>>
    /\ column_major_times = <<>>
    /\ avg_row_major_time = None
    /\ avg_column_major_time = None
    /\ speedup = None
    /\ clock = 0
    /\ calls = <<>>
    /\ stage_log = <<"Idle">>
    /\ exit_status = "running"
    /\ error = ""

SumInit ==
    /\ np_int_bits \in {32, 64}
    /\ MATRIX_SIZE = 0
    /\ NUM_RUNS = 0
    /\ \E rows \in 0..MaxRows, cols \in 0..MaxCols :
          matrix \in Matrices(rows, cols, Int32Samples)
    /\ row_major_sum = None
    /\ column_major_sum = None
    /\ row_major_reads = <<>>
    /\ column_major_reads = <<>>
    /\ RunIdle

CallRowMajor ==
    /\ row_major_sum = None
    /\ LET res == sum_matrix_row_major(matrix)
       IN  /\ row_major_sum' = res.total_sum
           /\ row_major_reads' = res.reads
    /\ UNCHANGED <<matrix, column_major_sum, column_major_reads>>
    /\ UNCHANGED <<cfgvars, runvars>>

CallColumnMajor ==
    /\ column_major_sum = None
    /\ LET res == sum_matrix_column_major(matrix)
       IN  /\ column_major_sum' = res.total_sum
           /\ column_major_reads' = res.reads
    /\ UNCHANGED <<matrix, row_major_sum, row_major_reads>>
    /\ UNCHANGED <<cfgvars, runvars>>

SumNext == CallRowMajor \/ CallColumnMajor

SumSpec == SumInit /\ [][SumNext]_vars

BothReturned == row_major_sum # None /\ column_major_sum # None

\* C1: for every matrix (any shape, any int32 values) the total returned by
\* sum_matrix_row_major equals the total returned by sum_matrix_column_major.
C1_SumsAgree == BothReturned => row_major_sum = column_major_sum

\* both summers have returned on a matrix with at least two rows and two
\* columns whose 32-bit accumulation wrapped around, read in different orders
C1_Witness ==
    /\ BothReturned
    /\ matrix.rows >= 2 /\ matrix.cols >= 2
    /\ row_major_reads # column_major_reads
    /\ np_int_bits = 32
    /\ ExactSum(matrix)[1] # 0
    /\ row_major_sum = column_major_sum

\* C2: sum_matrix_row_major returns the exact mathematical sum of the
\* elements: the accumulator never wraps around at 32 bits.
C2_RowMajorSumExact ==
    row_major_sum # None => row_major_sum = ExactSum(matrix)

\* C10: sum_matrix_row_major reads the offsets 0, 1, ..., rows*cols-1 in
\* increasing order (consecutive reads adjacent); sum_matrix_column_major
\* reads every offset exactly once, column by column, consecutive reads within
\* a column being exactly cols offsets apart.
C10_ReadsInOrder ==
    LET n == matrix.rows * matrix.cols
    IN  /\ row_major_sum # None =>
              row_major_reads = [k \in 1..n |-> k - 1]
        /\ column_major_sum # None =>
              /\ Len(column_major_reads) = n
              /\ \A o \in 0..(n - 1) :
                    Cardinality({k \in 1..n : column_major_reads[k] = o}) = 1
              /\ \A k \in 1..(n - 1) :
                    IF k % matrix.rows # 0
                    THEN column_major_reads[k + 1]
                            = column_major_reads[k] + matrix.cols
                    ELSE column_major_reads[k + 1] = k \div matrix.rows

\* C10, whole: the reads are in the stated order at every moment, and no step
\* of either summer changes the matrix.
C10_ReadOrder == []C10_ReadsInOrder /\ [][matrix' = matrix]_vars

\* both summers have returned on a matrix with two rows and two columns or
\* more, so that the two read orders differ
C10_Witness ==
    /\ BothReturned
    /\ matrix.rows >= 2 /\ matrix.cols >= 2
    /\ Len(row_major_reads) = matrix.rows * matrix.cols
    /\ column_major_reads[2] = matrix.cols

(* ---------------------------- fractions -------------------------------- *)
RECURSIVE SeqSum(_)
\* sum(times)
SeqSum(times) ==
    IF times = <<>> THEN 0 ELSE Head(times) + SeqSum(Tail(times))

\* a / b of two fractions (b is not zero)
FracDiv(a, b) == <<a[1] * b[2], a[2] * b[1]>>

FracEq(a, b) == a[1] * b[2] = b[1] * a[2]

FracNonNeg(a) == (a[1] >= 0 /\ a[2] > 0) \/ (a[1] <= 0 /\ a[2] < 0)

\* n / d rounded to the nearest integer, ties to even (n >= 0, d > 0)
RoundHalfEven(n, d) ==
    LET q == n \div d
        r == n % d
    IN  IF 2 * r < d THEN q
        ELSE IF 2 * r > d THEN q + 1
        ELSE IF q % 2 = 0 THEN q ELSE q + 1

\* n / d rounded, any signs (d is not zero)
Round(n, d) ==
    LET nn == IF d < 0 THEN 0 - n ELSE n
        dd == IF d < 0 THEN 0 - d ELSE d
    IN  IF nn >= 0 THEN RoundHalfEven(nn, dd)
        ELSE 0 - RoundHalfEven(0 - nn, dd)

\* f"{x:.6f}" of a time x in ticks: the number of microseconds printed
Fmt6(x) == Round(x[1], x[2] * TicksPerMicro)

\* f"{x:.2f}" of a ratio x: the number of hundredths printed
Fmt2(x) == Round(100 * x[1], x[2])

(* ------------------------ run_performance_test ------------------------- *)
Rule == <<"----------------------------------------">>

\* the values np.random.randint(low, high) is tried with, among low..high-1:
\* the smallest and the largest
randint_inclusive(low, high) == {low, high}

randint(low, high) == {low, high - 1}

\* `for i in range(n)` has another iteration
range_has_next_off_by_one(k, n) == k <= n

range_has_next(k, n) == k < n

\* the elapsed time measured between two readings of the clock, reversed
elapsed_reversed(start_time, end_time) == start_time - end_time

\* duration = end_time - start_time
elapsed(start_time, end_time) == end_time - start_time

\* sum(times) / NUM_RUNS (n is not zero)
average(times, n) == <<SeqSum(times), n>>

\* the guard accepting a zero average
greater_than_zero_or_equal(x) == FracNonNeg(x)

\* avg_row_major_time > 0
greater_than_zero(x) == (x[1] > 0 /\ x[2] > 0) \/ (x[1] < 0 /\ x[2] < 0)

NoMatrix == [rows |-> 0, cols |-> 0, data |-> <<>>]

Init ==
    /\ np_int_bits \in {32, 64}
    /\ MATRIX_SIZE \in (0 - 1)..MaxSize
    /\ NUM_RUNS \in (0 - 1)..MaxRuns
    /\ matrix = NoMatrix
    /\ row_major_sum = None
    /\ column_major_sum = None
    /\ row_major_reads = <<>>
    /\ column_major_reads = <<>>
    /\ RunIdle

Enter(stage) == stage_log' = Append(stage_log, stage)

\* an uncaught exception: the traceback is printed and the process exits 1
Raise(exc) ==
    /\ error' = exc
    /\ exit_status' = "1"
    /\ pc' = "aborted"
    /\ Enter("Aborted")

\* run_performance_test returns and the script ends: exit status 0
Finish ==
    /\ pc' = "done"
    /\ exit_status' = "0"
    /\ Enter("Done")
    /\ UNCHANGED error

\* lines 45-48
PrintHeader ==
    /\ pc = "header"
    /\ output' = output \o
          << <<"--- Data Locality Performance Test ---">>,
             <<"Matrix size", MATRIX_SIZE, MATRIX_SIZE>>,
             <<"Number of runs per test", NUM_RUNS>>,
             Rule >>
    /\ pc' = "generate"
    /\ Enter("Generating")
    /\ UNCHANGED <<i, last_sum, data_matrix, row_major_times,
                   column_major_times, avg_row_major_time,
                   avg_column_major_time, speedup, clock, calls,
                   exit_status, error>>
    /\ UNCHANGED <<cfgvars, sumvars>>

\* lines 52-55; randint raises ValueError for a negative dimension
GenerateMatrix ==
    /\ pc = "generate"
    /\ IF MATRIX_SIZE < 0
       THEN /\ output' = Append(output, <<"Generating matrix...">>)
            /\ Raise("ValueError")
            /\ UNCHANGED data_matrix
       ELSE /\ \E m \in Matrices(MATRIX_SIZE, MATRIX_SIZE, randint(Lo, Hi)) :
                  data_matrix' = <<m>>
            /\ output' = output \o
                  << <<"Generating matrix...">>, <<"Matrix generated.">>,
                     Rule >>
            /\ pc' = "row_begin"
            /\ Enter("TimingRowMajor")
            /\ UNCHANGED <<exit_status, error>>
    /\ UNCHANGED <<i, last_sum, row_major_times, column_major_times,
                   avg_row_major_time, avg_column_major_time, speedup,
                   clock, calls>>
    /\ UNCHANGED <<cfgvars, sumvars>>

\* lines 58-60
RowMajorBegin ==
    /\ pc = "row_begin"
    /\ row_major_times' = <<>>
    /\ output' = Append(output, <<"Testing Row-Major Summation", NUM_RUNS>>)
    /\ i' = 0
    /\ pc' = "row_loop"
    /\ UNCHANGED <<last_sum, data_matrix, column_major_times,
                   avg_row_major_time, avg_column_major_time, speedup,
                   clock, calls, stage_log, exit_status, error>>
    /\ UNCHANGED <<cfgvars, sumvars>>

\* lines 60-66: one iteration; the clock advances by d ticks during the call
RowMajorRun ==
    /\ pc = "row_loop"
    /\ range_has_next(i, NUM_RUNS)
    /\ \E d \in 0..MaxTick :
          LET start_time == clock
              end_time   == clock + d
              duration   == elapsed(start_time, end_time)
          IN  /\ clock' = end_time
              /\ row_major_times' = Append(row_major_times, duration)
              /\ output' = Append(output,
                                  <<"Run", i + 1, Fmt6(<<duration, 1>>)>>)
    /\ last_sum' = sum_matrix_row_major(data_matrix[1]).total_sum
    /\ calls' = Append(calls, <<"sum_matrix_row_major", data_matrix[1]>>)
    /\ i' = i + 1
    /\ UNCHANGED <<pc, data_matrix, column_major_times, avg_row_major_time,
                   avg_column_major_time, speedup, stage_log, exit_status,
                   error>>
    /\ UNCHANGED <<cfgvars, sumvars>>

\* lines 67-69, once the loop is exhausted; sum([]) / 0 raises
RowMajorAverage ==
    /\ pc = "row_loop"
    /\ ~range_has_next(i, NUM_RUNS)
    /\ IF NUM_RUNS = 0
       THEN /\ Raise("ZeroDivisionError")
            /\ UNCHANGED <<avg_row_major_time, output>>
       ELSE /\ avg_row_major_time' = average(row_major_times, NUM_RUNS)
            /\ output' = output \o
                  << <<"Average Row-Major Time", Fmt6(avg_row_major_time')>>,
                     Rule >>
            /\ pc' = "col_begin"
            /\ Enter("TimingColumnMajor")
            /\ UNCHANGED <<exit_status, error>>
    /\ UNCHANGED <<i, last_sum, data_matrix, row_major_times,
                   column_major_times, avg_column_major_time, speedup,
                   clock, calls>>
    /\ UNCHANGED <<cfgvars, sumvars>>

\* lines 72-74
ColumnMajorBegin ==
    /\ pc = "col_begin"
    /\ column_major_times' = <<>>
    /\ output' = Append(output,
                        <<"Testing Column-Major Summation", NUM_RUNS>>)
    /\ i' = 0
    /\ pc' = "col_loop"
    /\ UNCHANGED <<last_sum, data_matrix, row_major_times,
                   avg_row_major_time, avg_column_major_time, speedup,
                   clock, calls, stage_log, exit_status, error>>
    /\ UNCHANGED <<cfgvars, sumvars>>

\* lines 74-80: one iteration
ColumnMajorRun ==
    /\ pc = "col_loop"
    /\ range_has_next(i, NUM_RUNS)
    /\ \E d \in 0..MaxTick :
          LET start_time == clock
              end_time   == clock + d
              duration   == elapsed(start_time, end_time)
          IN  /\ clock' = end_time
              /\ column_major_times' = Append(column_major_times, duration)
              /\ output' = Append(output,
                                  <<"Run", i + 1, Fmt6(<<duration, 1>>)>>)
    /\ last_sum' = sum_matrix_column_major(data_matrix[1]).total_sum
    /\ calls' = Append(calls, <<"sum_matrix_column_major", data_matrix[1]>>)
    /\ i' = i + 1
    /\ UNCHANGED <<pc, data_matrix, row_major_times, avg_row_major_time,
                   avg_column_major_time, speedup, stage_log, exit_status,
                   error>>
    /\ UNCHANGED <<cfgvars, sumvars>>

\* lines 81-83, once the loop is exhausted
ColumnMajorAverage ==
    /\ pc = "col_loop"
    /\ ~range_has_next(i, NUM_RUNS)
    /\ IF NUM_RUNS = 0
       THEN /\ Raise("ZeroDivisionError")
            /\ UNCHANGED <<avg_column_major_time, output>>
       ELSE /\ avg_column_major_time' = average(column_major_times, NUM_RUNS)
            /\ output' = output \o
                  << <<"Average Column-Major Time",
                       Fmt6(avg_column_major_time')>>,
                     Rule >>
            /\ pc' = "report"
            /\ Enter("Reporting")
            /\ UNCHANGED <<exit_status, error>>
    /\ UNCHANGED <<i, last_sum, data_matrix, row_major_times,
                   column_major_times, avg_row_major_time, speedup,
                   clock, calls>>
    /\ UNCHANGED <<cfgvars, sumvars>>

Observation == <<"Observation: The row-major traversal is significantly faster ...">>

\* lines 86-101, then the return of run_performance_test and the exit
Report ==
    /\ pc = "report"
    /\ LET analysis ==
              << <<"--- Performance Analysis ---">>,
                 <<"Average Row-Major Time (analysis)",
                   Fmt6(avg_row_major_time)>>,
                 <<"Average Column-Major Time (analysis)",
                   Fmt6(avg_column_major_time)>> >>
       IN  IF greater_than_zero(avg_row_major_time)
           THEN IF avg_row_major_time[1] = 0
                THEN \* a float division by zero raises
                     /\ output' = output \o analysis
                     /\ Raise("ZeroDivisionError")
                     /\ UNCHANGED speedup
                ELSE /\ speedup' = FracDiv(avg_column_major_time,
                                           avg_row_major_time)
                     /\ output' = output \o analysis \o
                           << <<"Column-Major is approximately x slower",
                                Fmt2(speedup')>>,
                              Observation, Rule >>
                     /\ Finish
           ELSE /\ speedup' = speedup
                /\ output' = output \o analysis \o
                      << <<"Row-major time was too small to calculate speedup.">>,
                         Observation, Rule >>
                /\ Finish
    /\ UNCHANGED <<i, last_sum, data_matrix, row_major_times,
                   column_major_times, avg_row_major_time,
                   avg_column_major_time, clock, calls>>
    /\ UNCHANGED <<cfgvars, sumvars>>

Next ==
    \/ PrintHeader
    \/ GenerateMatrix
    \/ RowMajorBegin
    \/ RowMajorRun
    \/ RowMajorAverage
    \/ ColumnMajorBegin
    \/ ColumnMajorRun
    \/ ColumnMajorAverage
    \/ Report

Spec == Init /\ [][Next]_vars

(* ------------------------------ claims --------------------------------- *)
HasLine(tag) == \E k \in 1..Len(output) : output[k][1] = tag

Index(tag) == CHOOSE k \in 1..Len(output) : output[k][1] = tag

\* the lines printed strictly between the first lines tagged a and b
Between(a, b) == SubSeq(output, Index(a) + 1, Index(b) - 1)

RunLineCount == Cardinality({k \in 1..Len(output) : output[k][1] = "Run"})

IsPrefix(s, t) == Len(s) <= Len(t) /\ s = SubSeq(t, 1, Len(s))

TooSmall == "Row-major time was too small to calculate speedup."

Slower == "Column-Major is approximately x slower"

\* C3: with MATRIX_SIZE <= 0 the harness fails at once with an
\* InvalidArgument error and a non-zero exit status: no matrix is generated,
\* "Generating matrix..." is never printed, nothing is timed.
C3_InvalidSizeFailsAtOnce ==
    MATRIX_SIZE <= 0 =>
        /\ ~HasLine("Generating matrix...")
        /\ data_matrix = None
        /\ calls = <<>>
        /\ ~HasLine("Run")
        /\ exit_status # "0"
        /\ (pc = "aborted" => error = "InvalidArgument")

\* C4: with NUM_RUNS <= 0 the harness reports an InvalidArgument error and
\* exits at once: no matrix generation, no traversal, no per-kind progress
\* output before the failure (stated for a valid MATRIX_SIZE, so that the
\* run count alone decides).
C4_InvalidRunsFailAtOnce ==
    (NUM_RUNS <= 0 /\ MATRIX_SIZE > 0) =>
        /\ data_matrix = None
        /\ ~HasLine("Generating matrix...")
        /\ calls = <<>>
        /\ ~HasLine("Testing Row-Major Summation")
        /\ ~HasLine("Testing Column-Major Summation")
        /\ exit_status # "0"
        /\ (pc = "aborted" => error = "InvalidArgument")

\* the average is at least one tick of the clock
AtLeastOneTick(x) == x[2] > 0 /\ x[1] >= x[2]

C6_SamplesAndRunLines ==
    (pc = "done" /\ NUM_RUNS >= 1) =>
        /\ Len(row_major_times) = NUM_RUNS
        /\ Len(column_major_times) = NUM_RUNS
        /\ Between("Testing Row-Major Summation", "Average Row-Major Time")
              = [j \in 1..NUM_RUNS |->
                    <<"Run", j, Fmt6(<<row_major_times[j], 1>>)>>]
        /\ Between("Testing Column-Major Summation",
                   "Average Column-Major Time")
              = [j \in 1..NUM_RUNS |->
                    <<"Run", j, Fmt6(<<column_major_times[j], 1>>)>>]
        /\ RunLineCount = 2 * NUM_RUNS

\* a completed run of two or more runs per kind with differing samples
C6_Witness ==
    /\ pc = "done"
    /\ NUM_RUNS >= 2
    /\ Len(row_major_times) = NUM_RUNS
    /\ row_major_times[1] # row_major_times[2]
    /\ RunLineCount = 2 * NUM_RUNS

LinearStages == <<"Idle", "Generating", "TimingRowMajor",
                  "TimingColumnMajor", "Reporting", "Done">>

\* C7: the stages are entered only in the order Idle, Generating,
\* TimingRowMajor, TimingColumnMajor, Reporting, Done, none skipped or
\* revisited; the only other terminal state is Aborted, entered only when
\* generation fails.
C7_LinearStages ==
    \/ IsPrefix(stage_log, LinearStages)
    \/ stage_log = <<"Idle", "Generating", "Aborted">>

\* what is left of C7 when the run count is not zero: the stage order, and
\* Aborted only from a failed generation
StagesWhenRunsNotZero == NUM_RUNS # 0 => C7_LinearStages

\* single-threaded straight-line code: whatever step is next is taken
FairSpec == Spec /\ WF_vars(Next)

\* every valid configuration reaches Done
ValidReachesDone == (MATRIX_SIZE >= 1 /\ NUM_RUNS >= 1) ~> (pc = "done")

\* C8: for each kind the average is the sum of that kind's K samples divided
\* by K; it is >= 0 (every sample is >= 0, the clock never goes back), and
\* with K = 1 it equals the single sample.
C8_Averages ==
    pc = "done" =>
        /\ FracNonNeg(avg_row_major_time)
        /\ FracNonNeg(avg_column_major_time)
        /\ NUM_RUNS >= 1 =>
              /\ Len(row_major_times) = NUM_RUNS
              /\ Len(column_major_times) = NUM_RUNS
              /\ \A k \in 1..NUM_RUNS :
                    row_major_times[k] >= 0 /\ column_major_times[k] >= 0
              /\ FracEq(avg_row_major_time,
                        <<SeqSum(row_major_times), Len(row_major_times)>>)
              /\ FracEq(avg_column_major_time,
                        <<SeqSum(column_major_times),
                          Len(column_major_times)>>)
        /\ NUM_RUNS = 1 =>
              /\ FracEq(avg_row_major_time, <<row_major_times[1], 1>>)
              /\ FracEq(avg_column_major_time, <<column_major_times[1], 1>>)
              /\ output[Index("Average Row-Major Time")][2]
                    = output[Index("Testing Row-Major Summation") + 1][3]
              /\ output[Index("Average Column-Major Time")][2]
                    = output[Index("Testing Column-Major Summation") + 1][3]

\* a completed run of two or more runs whose averages are not whole ticks
C8_Witness ==
    /\ pc = "done"
    /\ NUM_RUNS >= 2
    /\ SeqSum(row_major_times) % NUM_RUNS # 0
    /\ SeqSum(column_major_times) > 0

\* C9: generation produces a matrix of exactly N x N elements, each within
\* [Lo, Hi), and that same matrix is the argument of every row-major and
\* column-major run.
C9_MatrixShapeRangeAndUse ==
    /\ data_matrix # None =>
          LET m == data_matrix[1]
          IN  /\ m.rows = MATRIX_SIZE /\ m.cols = MATRIX_SIZE
              /\ Len(m.data) = MATRIX_SIZE * MATRIX_SIZE
              /\ \A k \in 1..Len(m.data) : Lo <= m.data[k] /\ m.data[k] < Hi
    /\ \A k \in 1..Len(calls) :
          data_matrix # None /\ calls[k][2] = data_matrix[1]
    /\ (pc = "done" /\ NUM_RUNS >= 1) =>
          calls = [k \in 1..(2 * NUM_RUNS) |->
                     <<IF k <= NUM_RUNS THEN "sum_matrix_row_major"
                       ELSE "sum_matrix_column_major",
                       data_matrix[1]>>]

\* a completed run on a matrix of size two or more that holds both extreme
\* values
C9_Witness ==
    /\ pc = "done"
    /\ MATRIX_SIZE >= 2
    /\ NUM_RUNS >= 2
    /\ Len(calls) = 2 * NUM_RUNS
    /\ \E k \in 1..Len(data_matrix[1].data) : data_matrix[1].data[k] = Lo
    /\ \E k \in 1..Len(data_matrix[1].data) : data_matrix[1].data[k] = Hi - 1

=============================================================================
